---- MODULE Spec2Model ----
(***************************************************************************)
(* Leneda historical sensors (custom_components/leneda_power/sensor.py).   *)
(*                                                                         *)
(* Two sensors, "power" (LenedaHistoricalPowerSensor) and "energy"         *)
(* (LenedaHistoricalEnergySensor), share async_update_historical, which    *)
(* fetches 15-minute samples and stores them in _attr_historical_states.   *)
(* Each sensor reduces its stored samples to hourly statistic records with *)
(* async_calculate_statistic_data.                                         *)
(*                                                                         *)
(* Numbers: sample values are floats in the code.  The model keeps them    *)
(* exact: a value is a rational [n, d] in lowest terms, so a mean of three *)
(* samples is 1/3-exact and sums of means are exact (float rounding is not *)
(* modelled).  Timestamps are whole seconds since the UTC epoch.           *)
(***************************************************************************)
EXTENDS Integers, Sequences, FiniteSets, TLC

VARIABLES
    historical_states,  \* sensor -> _attr_historical_states (sequence of samples)
    pc,                 \* sensor -> position of its polling cycle
    response,           \* sensor -> the HTTP outcome the cycle in flight received
    store,              \* sensor -> statistics store: set of records, one per start
    buckets,            \* sensor -> groups the last aggregation consumed
    emitted,            \* sensor -> records returned by the last aggregation
    calc_latest,        \* sensor -> `latest` passed to the last aggregation
    raised,             \* sensor -> the last aggregation raised an exception
    logged,             \* sensor -> the last update logged "Leneda API error"
    requests,           \* sensor -> retrieval calls it has in flight
    cycles              \* number of polling cycles started so far

vars == <<historical_states, pc, response, store, buckets, emitted, calc_latest,
          raised, logged, requests, cycles>>

Sensors == {"power", "energy"}

----------------------------------------------------------------------------
(* Optional values: Python's None and a present value. *)
None == <<>>
Some(x) == <<x>>
IsNone(o) == o = <<>>
Get(o) == o[1]

----------------------------------------------------------------------------
(* Exact rationals in lowest terms with a positive denominator. *)
RECURSIVE Gcd(_, _)
Gcd(a, b) == IF b = 0 THEN a ELSE Gcd(b, a % b)

Abs(x) == IF x < 0 THEN -x ELSE x

Rat(n, d) ==
    LET g == Gcd(Abs(n), d)
    IN  [n |-> n \div g, d |-> d \div g]

RatInt(v) == [n |-> v, d |-> 1]

RatAdd(a, b) == Rat(a.n * b.d + b.n * a.d, a.d * b.d)

RatLeq(a, b) == a.n * b.d <= b.n * a.d

----------------------------------------------------------------------------
(* Bounds of the model. *)
MaxLen == 3        \* samples in one aggregator input (SpecAgg)
MaxItems == 2      \* items in one API response (Spec)
MaxCycles == 2     \* polling cycles started in one behaviour (Spec)

(* granularity=3600 passed to group_by_interval. *)
Granularity == 3600

(* Sample timestamps over three hours, on and off the hour boundary, and
   sample values of both signs. *)
Timestamps == {3600, 5400, 7200, 9000}
Values == {-1, 1, 2}

(* HistoricalState(state=float(value), timestamp=dt.timestamp()). *)
HistoricalState(v, ts) == [state |-> v, timestamp |-> ts]

Samples == {HistoricalState(v, ts) : v \in Values, ts \in Timestamps}

RECURSIVE SeqsUpTo(_, _)
SeqsUpTo(S, n) ==
    IF n = 0 THEN {<<>>}
    ELSE LET shorter == SeqsUpTo(S, n - 1)
         IN  shorter \cup {Append(q, x) : q \in {r \in shorter : Len(r) = n - 1}, x \in S}

----------------------------------------------------------------------------
(* homeassistant_historical_sensor.group_by_interval, as the sensors call it:
   itertools.groupby over the states in the order given, keyed by blockize.
   blockize maps a timestamp to the start of its block; a timestamp exactly on
   a block boundary belongs to the block that ends there. *)
blockize(hist_state, granularity) ==
    LET ts == hist_state.timestamp
        block == ts \div granularity
        leftover == ts % granularity
    IN  IF leftover = 0 THEN (block - 1) * granularity ELSE block * granularity

(* GroupStep with a plausible slip: a state joining the current group replaces
   the group's collection instead of extending it. *)
GroupStepReplacing(groups, x, granularity) ==
    LET k == blockize(x, granularity)
        n == Len(groups)
    IN  IF n > 0 /\ groups[n].block_ts = k
        THEN [groups EXCEPT ![n].collection = <<x>>]
        ELSE Append(groups, [block_ts |-> k, collection |-> <<x>>])

(* One step of itertools.groupby: a state whose key equals the key of the
   group being built joins it, any other key opens a new group. *)
GroupStep(groups, x, granularity) ==
    LET k == blockize(x, granularity)
        n == Len(groups)
    IN  IF n > 0 /\ groups[n].block_ts = k
        THEN [groups EXCEPT ![n].collection = Append(@, x)]
        ELSE Append(groups, [block_ts |-> k, collection |-> <<x>>])

RECURSIVE group_by_interval(_, _)
group_by_interval(states, granularity) ==
    IF states = <<>> THEN <<>>
    ELSE GroupStep(group_by_interval(SubSeq(states, 1, Len(states) - 1), granularity),
                   states[Len(states)], granularity)

(* statistics.mean([x.state for x in collection]) *)
RECURSIVE SumStates(_)
SumStates(collection) ==
    IF collection = <<>> THEN 0
    ELSE collection[1].state + SumStates(Tail(collection))

mean(collection) == Rat(SumStates(collection), Len(collection))

(* sorted(hist_states, key=lambda x: x.timestamp): a stable sort. *)
InsertSorted(s, x) ==
    LET before == {i \in 1..Len(s) : s[i].timestamp <= x.timestamp}
        k == IF before = {} THEN 0 ELSE CHOOSE i \in before : \A j \in before : j <= i
    IN  SubSeq(s, 1, k) \o <<x>> \o SubSeq(s, k + 1, Len(s))

RECURSIVE sorted_states(_)
sorted_states(hist_states) ==
    IF hist_states = <<>> THEN <<>>
    ELSE InsertSorted(sorted_states(SubSeq(hist_states, 1, Len(hist_states) - 1)),
                      hist_states[Len(hist_states)])

----------------------------------------------------------------------------
(* StatisticData(start=..., state=..., mean=..., sum=...).  The power sensor
   passes no sum: the record's sum is absent. *)
StatisticData(start, state, mean_, sum_) ==
    [start |-> start, state |-> state, mean |-> mean_, sum |-> sum_]

(* LenedaHistoricalPowerSensor.async_calculate_statistic_data: one record per
   group that group_by_interval yields, in the order it yields them. *)
RECURSIVE PowerLoop(_, _)
PowerLoop(groups, ret) ==
    IF groups = <<>> THEN ret
    ELSE LET collection == Head(groups).collection
         IN  IF collection = <<>> THEN PowerLoop(Tail(groups), ret)
             ELSE PowerLoop(Tail(groups),
                            Append(ret, StatisticData(Head(groups).block_ts,
                                                      mean(collection),
                                                      mean(collection), None)))

(* The states the power sensor hands to group_by_interval: as received. *)
PowerInput(hist_states) == hist_states

(* The mean aggregation with a resume cursor it does not have: samples of
   hours up to the last persisted one are dropped. *)
PowerResuming(hist_states, latest) ==
    [raised |-> FALSE,
     ret |-> PowerLoop(group_by_interval(
                 IF IsNone(latest) THEN hist_states
                 ELSE SelectSeq(hist_states,
                                LAMBDA x : blockize(x, Granularity) > Get(latest).start),
                 Granularity), <<>>)]

Power_async_calculate_statistic_data(hist_states, latest) ==
    [raised |-> FALSE,
     ret |-> PowerLoop(group_by_interval(PowerInput(hist_states), Granularity), <<>>)]

(* accumulated = latest["sum"] if latest else 0 *)
SeedAccumulated(latest) ==
    IF IsNone(latest) THEN Some(RatInt(0)) ELSE Get(latest).sum

(* Accumulate with a plausible slip: `=` for `+=`. *)
AccumulateAssign(accumulated, hourly_energy) == hourly_energy

AccumulateSubtract(accumulated, hourly_energy) ==
    RatAdd(accumulated, [n |-> 0 - hourly_energy.n, d |-> hourly_energy.d])

(* accumulated += hourly_energy *)
Accumulate(accumulated, hourly_energy) == RatAdd(accumulated, hourly_energy)

(* The loop of LenedaHistoricalEnergySensor.async_calculate_statistic_data.
   `accumulated` is optional: `None += float` raises TypeError, which leaves
   the function without a result. *)
RECURSIVE EnergyLoop(_, _, _)
EnergyLoop(groups, accumulated, ret) ==
    IF groups = <<>> THEN [raised |-> FALSE, ret |-> ret]
    ELSE LET collection == Head(groups).collection
             hourly_energy == mean(collection)
         IN  IF collection = <<>> THEN EnergyLoop(Tail(groups), accumulated, ret)
             ELSE IF IsNone(accumulated) THEN [raised |-> TRUE, ret |-> <<>>]
             ELSE LET acc == Accumulate(Get(accumulated), hourly_energy)
                  IN  EnergyLoop(Tail(groups), Some(acc),
                                 Append(ret, StatisticData(Head(groups).block_ts,
                                                           hourly_energy,
                                                           hourly_energy, Some(acc))))

(* The states the energy sensor hands to group_by_interval. *)
EnergyInputAsReceived(hist_states) == hist_states

(* The sort with reverse=True. *)
EnergyInputDescending(hist_states) ==
    [i \in 1..Len(hist_states) |->
        sorted_states(hist_states)[Len(hist_states) + 1 - i]]

EnergyInput(hist_states) == sorted_states(hist_states)

Energy_async_calculate_statistic_data(hist_states, latest) ==
    EnergyLoop(group_by_interval(EnergyInput(hist_states), Granularity),
               SeedAccumulated(latest), <<>>)

(* The groups a sensor's aggregation iterates over. *)
Groups(s, hist_states) ==
    group_by_interval(IF s = "power" THEN PowerInput(hist_states)
                      ELSE EnergyInput(hist_states), Granularity)

async_calculate_statistic_data(s, hist_states, latest) ==
    IF s = "power" THEN Power_async_calculate_statistic_data(hist_states, latest)
    ELSE Energy_async_calculate_statistic_data(hist_states, latest)

----------------------------------------------------------------------------
(* The statistics store: read_last(series) -> {period_start, sum} | absent, and
   write(series, records), which overwrites by period_start. *)
MaxStart(st) == CHOOSE r \in st : \A q \in st : q.start <= r.start

read_last(st) ==
    IF st = {} THEN None
    ELSE Some([start |-> MaxStart(st).start, sum |-> MaxStart(st).sum])

RECURSIVE write(_, _)
write(st, records) ==
    IF records = <<>> THEN st
    ELSE LET r == Head(records)
         IN  write({q \in st : q.start # r.start} \cup {r}, Tail(records))

(* The last step of a cycle (Bucketing, Aggregating, Emitting): the sensor's
   stored samples and the store's last record are handed to
   async_calculate_statistic_data and the records it returns are written to
   the store.  Every stored sample is handed over: sensor.py itself applies no
   cursor.  An exception raised by the calculation propagates: nothing is
   written. *)
WriteHistorical(s) ==
    /\ pc[s] = "fetched"
    /\ LET latest == read_last(store[s])
           res == async_calculate_statistic_data(s, historical_states[s], latest)
       IN  /\ calc_latest' = [calc_latest EXCEPT ![s] = latest]
           /\ raised' = [raised EXCEPT ![s] = res.raised]
           /\ emitted' = [emitted EXCEPT ![s] = res.ret]
           /\ buckets' = [buckets EXCEPT ![s] = Groups(s, historical_states[s])]
           /\ store' = [store EXCEPT ![s] = write(@, res.ret)]
    /\ pc' = [pc EXCEPT ![s] = "idle"]
    /\ UNCHANGED <<historical_states, response, logged, requests, cycles>>

----------------------------------------------------------------------------
(* One element of the response's "items" array.  startedAt and value are
   optional: None stands for a string datetime.fromisoformat rejects, or a
   value float() rejects; a present startedAt is named by the instant that
   fromisoformat(...).timestamp() returns for it. *)
Item(startedAt, value) == [startedAt |-> startedAt, value |-> value]

ItemTimestamps == {5400, 9000}
ItemValues == {1}

Items ==
    {Item(Some(ts), Some(v)) : ts \in ItemTimestamps, v \in ItemValues}
        \cup {Item(None, Some(1))}

ItemOk(item) == ~IsNone(item.startedAt) /\ ~IsNone(item.value)

(* What the HTTP call can produce: status 200 with a body, another status, or
   an exception raised by session.get / resp.json (transport error, timeout). *)
NoResponse == [kind |-> "none", items |-> <<>>]

Responses ==
    {[kind |-> "200", items |-> its] : its \in SeqsUpTo(Items, MaxItems)}
        \cup {[kind |-> "non200", items |-> <<>>], [kind |-> "exception", items |-> <<>>]}

(* for item in ts_data: states.append(HistoricalState(...)).  The first item
   that does not parse raises; the exception leaves the loop. *)
RECURSIVE ParseLoop(_, _)
ParseLoop(ts_data, states) ==
    IF ts_data = <<>> THEN [ok |-> TRUE, states |-> states]
    ELSE IF ~ItemOk(Head(ts_data)) THEN [ok |-> FALSE, states |-> states]
    ELSE ParseLoop(Tail(ts_data),
                   Append(states, HistoricalState(Get(Head(ts_data).value),
                                                  Get(Head(ts_data).startedAt))))

StatesAfterPartial(old, resp) ==
    IF resp.kind = "200" THEN ParseLoop(resp.items, <<>>).states ELSE old

StatesAfterClearing(old, resp) ==
    IF resp.kind = "200" /\ ParseLoop(resp.items, <<>>).ok
    THEN ParseLoop(resp.items, <<>>).states
    ELSE <<>>

(* The samples the sensor stores once the response is handled: the parsed list
   when the status is 200 and every item parsed, otherwise what it held. *)
StatesAfter(old, resp) ==
    IF resp.kind = "200" /\ ParseLoop(resp.items, <<>>).ok
    THEN ParseLoop(resp.items, <<>>).states
    ELSE old

(* except Exception as err: _LOGGER.error(...) *)
ErrorLogged(resp) ==
    \/ resp.kind = "exception"
    \/ resp.kind = "200" /\ ~ParseLoop(resp.items, <<>>).ok

(* Time.  _poll_interval = timedelta(minutes=15): the n-th polling trigger
   fires PollInterval after the one before; the first one fires after every
   sample instant of the model. *)
DaySeconds == 24 * 60 * 60
PollInterval == 15 * 60
FirstPoll == 3 * Granularity
Now(n) == FirstPoll + n * PollInterval

(* start = end - timedelta(days=14) *)
FetchDays == 14

(* end = datetime.now(timezone.utc); start = end - timedelta(days=14); one
   session.get with startDateTime = start and endDateTime = end. *)
FetchWindow(now) == [start |-> now - FetchDays * DaySeconds, end |-> now]

RetrievalCalls(now) == <<FetchWindow(now)>>

(* async_update_historical up to `async with session.get(...)`: the request is
   issued and the coroutine is suspended. *)
StartUpdate(s) ==
    /\ pc[s] = "idle"
    /\ cycles < MaxCycles
    /\ pc' = [pc EXCEPT ![s] = "fetching"]
    /\ cycles' = cycles + 1
    /\ response' = [response EXCEPT ![s] = NoResponse]
    /\ logged' = [logged EXCEPT ![s] = FALSE]
    /\ requests' = [requests EXCEPT ![s] = RetrievalCalls(Now(cycles))]
    /\ UNCHANGED <<historical_states, store, buckets, emitted, calc_latest, raised>>

AfterResponseRaising(resp) ==
    IF resp.kind = "exception" THEN "raised" ELSE "fetched"

(* Where the coroutine stands once a response has been handled: every outcome
   (status 200, another status, an exception caught by `except Exception`)
   leaves async_update_historical normally. *)
AfterResponse(resp) == "fetched"

(* async_update_historical from the response on: status check, parse loop,
   assignment of _attr_historical_states, exception handler. *)
(* The response handling with the sample list held by the class, not by
   the instance. *)
ReceiveResponseShared(s) ==
    /\ pc[s] = "fetching"
    /\ \E resp \in Responses :
          /\ response' = [response EXCEPT ![s] = resp]
          /\ historical_states' =
                 [t \in Sensors |-> StatesAfter(historical_states[t], resp)]
          /\ logged' = [logged EXCEPT ![s] = ErrorLogged(resp)]
          /\ pc' = [pc EXCEPT ![s] = AfterResponse(resp)]
    /\ requests' = [requests EXCEPT ![s] = <<>>]
    /\ UNCHANGED <<store, buckets, emitted, calc_latest, raised, cycles>>

ReceiveResponse(s) ==
    /\ pc[s] = "fetching"
    /\ \E resp \in Responses :
          /\ response' = [response EXCEPT ![s] = resp]
          /\ historical_states' =
                 [historical_states EXCEPT ![s] = StatesAfter(@, resp)]
          /\ logged' = [logged EXCEPT ![s] = ErrorLogged(resp)]
          /\ pc' = [pc EXCEPT ![s] = AfterResponse(resp)]
    /\ requests' = [requests EXCEPT ![s] = <<>>]
    /\ UNCHANGED <<store, buckets, emitted, calc_latest, raised, cycles>>

(* The host cancels the cycle while it is suspended in session.get:
   CancelledError is not an Exception, so the handler does not run; nothing is
   assigned and the cycle ends without aggregating. *)
Cancelled == [kind |-> "cancelled", items |-> <<>>]

CancelUpdate(s) ==
    /\ pc[s] = "fetching"
    /\ response' = [response EXCEPT ![s] = Cancelled]
    /\ pc' = [pc EXCEPT ![s] = "idle"]
    /\ requests' = [requests EXCEPT ![s] = <<>>]
    /\ UNCHANGED <<historical_states, store, buckets, emitted, calc_latest, raised,
                   logged, cycles>>

----------------------------------------------------------------------------
(* A statistics store as a restart finds it: empty, or holding one record of
   an earlier run at PriorStart whose sum is present or absent. *)
PriorStart == Granularity
PriorSum == RatInt(10)

PriorStores ==
    {{}}
        \cup {{StatisticData(PriorStart, RatInt(1), RatInt(1), sm)} :
                 sm \in {Some(PriorSum), None}}

(* The sensors after construction: no samples (self._attr_historical_states =
   []), nothing in flight. *)
Init ==
    /\ historical_states = [s \in Sensors |-> <<>>]
    /\ pc = [s \in Sensors |-> "idle"]
    /\ response = [s \in Sensors |-> NoResponse]
    /\ store = [s \in Sensors |-> {}]
    /\ buckets = [s \in Sensors |-> <<>>]
    /\ emitted = [s \in Sensors |-> <<>>]
    /\ calc_latest = [s \in Sensors |-> None]
    /\ raised = [s \in Sensors |-> FALSE]
    /\ logged = [s \in Sensors |-> FALSE]
    /\ requests = [s \in Sensors |-> <<>>]
    /\ cycles = 0

Next ==
    \E s \in Sensors :
        \/ StartUpdate(s)
        \/ ReceiveResponse(s)
        \/ CancelUpdate(s)
        \/ WriteHistorical(s)

Spec == Init /\ [][Next]_vars

(* The step of pc that WriteHistorical(s) takes, and no other action. *)
Written(s) == pc[s] = "fetched" /\ pc' = [pc EXCEPT ![s] = "idle"]

(* Scheduling: session.get carries timeout=30, so a suspended cycle receives
   its response, an exception or a cancellation; the host runs the aggregation
   and the write once the update has returned. *)
Fairness ==
    \A s \in Sensors :
        /\ WF_vars(ReceiveResponse(s) \/ CancelUpdate(s))
        /\ WF_pc(Written(s))

SpecFair == Spec /\ Fairness

(* The aggregators alone: both sensors hold the same fetched samples, any
   sequence of up to MaxLen samples in any order, and the energy sensor's store
   is any prior store; the only step left of the cycle is the aggregation. *)
InitAgg ==
    /\ \E h \in SeqsUpTo(Samples, MaxLen) :
          historical_states = [s \in Sensors |-> h]
    /\ pc = [s \in Sensors |-> "fetched"]
    /\ response = [s \in Sensors |-> NoResponse]
    /\ \E st \in PriorStores : store = [s \in Sensors |-> IF s = "energy" THEN st ELSE {}]
    /\ buckets = [s \in Sensors |-> <<>>]
    /\ emitted = [s \in Sensors |-> <<>>]
    /\ calc_latest = [s \in Sensors |-> None]
    /\ raised = [s \in Sensors |-> FALSE]
    /\ logged = [s \in Sensors |-> FALSE]
    /\ requests = [s \in Sensors |-> <<>>]
    /\ cycles = 1

NextAgg == \E s \in Sensors : WriteHistorical(s)

SpecAgg == InitAgg /\ [][NextAgg]_vars

----------------------------------------------------------------------------
(* Reference notions the properties are stated with: the hour buckets of an
   input as sets of positions, independent of its order. *)
Blocks(h) == {blockize(h[i], Granularity) : i \in DOMAIN h}

BucketOf(h, b) == {i \in DOMAIN h : blockize(h[i], Granularity) = b}

RECURSIVE SumAt(_, _)
SumAt(h, I) ==
    IF I = {} THEN 0
    ELSE LET i == CHOOSE j \in I : TRUE
         IN  h[i].state + SumAt(h, I \ {i})

BucketMean(h, b) == Rat(SumAt(h, BucketOf(h, b)), Cardinality(BucketOf(h, b)))

(* The k-th hour bucket of h in chronological order. *)
NthBlock(h, k) ==
    CHOOSE b \in Blocks(h) : Cardinality({c \in Blocks(h) : c < b}) = k - 1

(* seed + m1 + ... + mk *)
RECURSIVE RunningSum(_, _, _)
RunningSum(h, seed, k) ==
    IF k = 0 THEN seed
    ELSE RatAdd(RunningSum(h, seed, k - 1), BucketMean(h, NthBlock(h, k)))

RefEnergy(h, seed) ==
    [i \in 1..Cardinality(Blocks(h)) |->
        StatisticData(NthBlock(h, i), BucketMean(h, NthBlock(h, i)),
                      BucketMean(h, NthBlock(h, i)), Some(RunningSum(h, seed, i)))]

SeedPresent(latest) == IsNone(latest) \/ ~IsNone(Get(latest).sum)

SeedValue(latest) == IF IsNone(latest) THEN RatInt(0) ELSE Get(Get(latest).sum)

PriorLatest == Some([start |-> PriorStart, sum |-> Some(PriorSum)])

Count(q, x) == Cardinality({i \in DOMAIN q : q[i] = x})

RECURSIVE Flatten(_)
Flatten(groups) ==
    IF groups = <<>> THEN <<>> ELSE Head(groups).collection \o Flatten(Tail(groups))

(* The samples of a response's well-formed items, in order. *)
RECURSIVE ValidStates(_)
ValidStates(items) ==
    IF items = <<>> THEN <<>>
    ELSE IF ItemOk(Head(items))
         THEN <<HistoricalState(Get(Head(items).value), Get(Head(items).startedAt))>>
                  \o ValidStates(Tail(items))
         ELSE ValidStates(Tail(items))

----------------------------------------------------------------------------
(* C1: once the energy sensor has aggregated with a seed S0 (0 without a prior
   record, else the prior sum), it has emitted exactly one record per non-empty
   hour bucket of its input, in chronological order, the i-th carrying the mean
   m_i of the i-th bucket and the sum S0 + m_1 + ... + m_i, which is the
   previous record's sum (S0 for the first) plus its own mean. *)
C1_CumulativeSums ==
    (pc["energy"] = "idle" /\ SeedPresent(calc_latest["energy"])) =>
        LET h == historical_states["energy"]
            out == emitted["energy"]
            S0 == SeedValue(calc_latest["energy"])
        IN  /\ Len(out) = Cardinality(Blocks(h))
            /\ \A i \in DOMAIN out :
                  /\ out[i].mean = BucketMean(h, NthBlock(h, i))
                  /\ out[i].sum = Some(RunningSum(h, S0, i))
                  /\ out[i].sum =
                         Some(RatAdd(IF i = 1 THEN S0 ELSE Get(out[i - 1].sum),
                                     out[i].mean))

(* C1 witness: three records emitted from an input that arrived out of order,
   on top of a prior sum. *)
C1_Witness ==
    /\ pc["energy"] = "idle"
    /\ calc_latest["energy"] = PriorLatest
    /\ Len(emitted["energy"]) = 3
    /\ historical_states["energy"][1].timestamp > historical_states["energy"][2].timestamp

(* C2: whatever the resume state (no prior record, a prior record with a sum,
   a prior record without a sum), the energy aggregation raises nothing and its
   first record's sum is the seed plus its mean, the seed being the prior sum
   when present and 0 otherwise; a prior sum PriorSum at hour H-1 and one
   sample v inside hour H give the single record (H, sum PriorSum + v). *)
C2_SeedFromLastSumOrZero ==
    pc["energy"] = "idle" =>
        LET latest == calc_latest["energy"]
            h == historical_states["energy"]
            out == emitted["energy"]
            S0 == IF SeedPresent(latest) THEN SeedValue(latest) ELSE RatInt(0)
            H == PriorStart + Granularity
        IN  /\ ~raised["energy"]
            /\ Len(out) = Cardinality(Blocks(h))
            /\ Len(out) > 0 => out[1].sum = Some(RatAdd(S0, out[1].mean))
            /\ (/\ latest = PriorLatest
                /\ Len(h) = 1
                /\ H < h[1].timestamp
                /\ h[1].timestamp < H + Granularity)
                   => out = <<StatisticData(H, RatInt(h[1].state), RatInt(h[1].state),
                                            Some(RatAdd(PriorSum, RatInt(h[1].state))))>>

(* C3: with a last persisted period_start T, the energy records are those of
   the input without its samples of timestamp <= T, and none starts at or
   before T. *)
C3_ResumeExclusion ==
    (/\ pc["energy"] = "idle"
     /\ ~IsNone(calc_latest["energy"])
     /\ SeedPresent(calc_latest["energy"])) =>
        LET T == Get(calc_latest["energy"]).start
            h == historical_states["energy"]
            out == emitted["energy"]
        IN  /\ out = RefEnergy(SelectSeq(h, LAMBDA x : x.timestamp > T),
                               SeedValue(calc_latest["energy"]))
            /\ \A i \in DOMAIN out : out[i].start > T

RECURSIVE SumOfMeans(_)
SumOfMeans(st) ==
    IF st = {} THEN RatInt(0)
    ELSE LET r == CHOOSE q \in st : TRUE
         IN  RatAdd(r.mean, SumOfMeans(st \ {r}))

(* C4: a cycle of the energy sensor whose fetch succeeded (status 200, every
   item parsed), whatever hours its response overlaps, does not change the sum
   stored at a period_start that is already persisted, and leaves the last
   stored sum equal to the sum of the stored hours' energies, each hour counted
   once. *)
C4_IdempotentResumption ==
    [][(response["energy"].kind = "200" /\ ParseLoop(response["energy"].items, <<>>).ok) =>
          /\ \A r \in store["energy"] :
                \E q \in store'["energy"] : q.start = r.start /\ q.sum = r.sum
          /\ store'["energy"] # {} =>
                MaxStart(store'["energy"]).sum = Some(SumOfMeans(store'["energy"]))]_vars

(* C5: once the power sensor has aggregated, it has emitted exactly one record
   per non-empty hour bucket of its input, with the mean of all the samples of
   that hour and no sum. *)
C5_MeanPerHour ==
    pc["power"] = "idle" =>
        LET h == historical_states["power"]
            out == emitted["power"]
        IN  /\ Len(out) = Cardinality(Blocks(h))
            /\ \A b \in Blocks(h) :
                  \E i \in DOMAIN out :
                      /\ out[i].start = b
                      /\ out[i].mean = BucketMean(h, b)
                      /\ IsNone(out[i].sum)

(* C6: the groups either aggregation consumed partition its input: no group is
   empty, a group holds only samples of its own block, every sample occurs in
   the groups as often as in the input, the group sizes add up to the input's
   length, and one record is emitted per group. *)
C6_BucketsPartitionInput ==
    \A s \in Sensors :
        pc[s] = "idle" =>
            LET h == historical_states[s]
                g == buckets[s]
                all == Flatten(g)
            IN  /\ Len(all) = Len(h)
                /\ \A i \in DOMAIN h : Count(all, h[i]) = Count(h, h[i])
                /\ \A i \in DOMAIN g :
                      /\ g[i].collection # <<>>
                      /\ \A j \in DOMAIN g[i].collection :
                            blockize(g[i].collection[j], Granularity) = g[i].block_ts
                /\ ~raised[s] => Len(emitted[s]) = Len(g)

(* C6 witness: the power sensor grouped three samples that arrived out of
   order, two of them of one hour, into more than one group. *)
C6_Witness ==
    /\ pc["power"] = "idle"
    /\ Len(historical_states["power"]) = 3
    /\ Len(buckets["power"]) >= 2
    /\ \E i \in DOMAIN buckets["power"] : Len(buckets["power"][i].collection) = 2
    /\ historical_states["power"][1].timestamp > historical_states["power"][2].timestamp

(* C7: the power records have strictly ascending, hence pairwise distinct,
   period_start values whatever the order of the input. *)
C7_PowerStartsAscending ==
    pc["power"] = "idle" =>
        \A i, j \in DOMAIN emitted["power"] :
            i < j => emitted["power"][i].start < emitted["power"][j].start

(* C8: after a status-200 response, the stored samples are the samples of all
   its well-formed items: a malformed item is dropped alone. *)
C8_ParseFailurePerRecord ==
    \A s \in Sensors :
        (pc[s] \in {"fetched", "idle"} /\ response[s].kind = "200") =>
            historical_states[s] = ValidStates(response[s].items)

(* C9: a cycle whose response yields no valid sample completes without an
   exception and emits no record. *)
C9_NoValidSamplesNoRecords ==
    \A s \in Sensors :
        (/\ pc[s] = "idle"
         /\ response[s].kind = "200"
         /\ ValidStates(response[s].items) = <<>>) =>
            ~raised[s] /\ emitted[s] = <<>>

(* C10: a cycle whose retrieval failed (non-200 status, exception) raises
   nothing and aggregates the empty sample set: no bucket, no record. *)
C10_FailedFetchIsEmpty ==
    \A s \in Sensors :
        (pc[s] = "idle" /\ response[s].kind \in {"non200", "exception"}) =>
            ~raised[s] /\ buckets[s] = <<>> /\ emitted[s] = <<>>

----------------------------------------------------------------------------
(* Fetch planning and range selection. *)
CeilDiv(a, b) == (a + b - 1) \div b

Last(q) == q[Len(q)]

(* Per-request limits of the retrieval interface, in days. *)
Limits == {7, 14, 30}

(* The range a cycle asked for, read off the calls it issued. *)
RequestedRange(calls) == [start |-> calls[1].start, end |-> Last(calls).end]

PlanCovers(calls, range, limit) ==
    /\ Len(calls) = CeilDiv(range.end - range.start, limit * DaySeconds)
    /\ calls[1].start = range.start
    /\ Last(calls).end = range.end
    /\ \A i \in 1..Len(calls) :
           /\ calls[i].start < calls[i].end
           /\ calls[i].end - calls[i].start <= limit * DaySeconds
    /\ \A i \in 1..(Len(calls) - 1) : calls[i].end = calls[i + 1].start

(* C11: for a requested range of R days and a per-request limit of L days, a
   cycle issues exactly ceil(R/L) retrieval calls, in chronological order,
   each spanning at most L days, contiguous, not overlapping and together
   covering the range exactly once. *)
C11_FetchPlanning ==
    \A s \in Sensors :
        requests[s] # <<>> =>
            \A limit \in Limits :
                PlanCovers(requests[s], FetchWindow(Last(requests[s]).end), limit)

(* initial lookback of the reference configuration, in days *)
InitialLookbackDays == 180

(* C12: a cycle that finds no prior statistics requests the configured
   initial lookback; a cycle that finds prior statistics requests a range
   that starts at the last persisted period, not a fixed window. *)
C12_FetchRangeSelection ==
    \A s \in Sensors :
        pc[s] = "fetching" =>
            LET range == RequestedRange(requests[s])
                latest == read_last(store[s])
            IN  IF IsNone(latest)
                THEN range.end - range.start = InitialLookbackDays * DaySeconds
                ELSE range.start >= Get(latest).start

(* The two halves of C12, each on its own. *)
C12_InitialLookback ==
    \A s \in Sensors :
        (pc[s] = "fetching" /\ store[s] = {}) =>
            LET range == RequestedRange(requests[s])
            IN  range.end - range.start = InitialLookbackDays * DaySeconds

C12_ResumeFromLast ==
    \A s \in Sensors :
        (pc[s] = "fetching" /\ store[s] # {}) =>
            RequestedRange(requests[s]).start >= MaxStart(store[s]).start

(* C13: every polling cycle eventually returns to Idle whatever the outcome
   of the retrieval (success, non-200 status, exception, malformed body or
   item): the update terminates without raising, and a failed cycle does not
   keep a later cycle from running. *)
C13_CycleReturnsToIdle ==
    \A s \in Sensors : (pc[s] # "idle") ~> (pc[s] = "idle")

C13_Witness ==
    /\ pc["power"] = "idle"
    /\ response["power"].kind = "exception"
    /\ pc["energy"] = "idle"
    /\ response["energy"].kind = "200"
    /\ ~ParseLoop(response["energy"].items, <<>>).ok
    /\ cycles = 2

(* The step of sensor s that ends the suspension in session.get. *)
UpdateReturns(s) == pc[s] = "fetching" /\ pc'[s] # "fetching"

AllItemsOk(items) == \A i \in DOMAIN items : ItemOk(items[i])

(* C14: a cycle is atomic for the sink: whether the retrieval fails, is
   cancelled while suspended, or stops at a malformed item, the samples made
   available for emission never become a strict prefix or a part of the
   parsed response; they change only to the complete batch of a response
   whose every item parsed, and a cancelled cycle changes neither the samples
   nor the emitted records nor the store. *)
C14_BatchIsAtomic ==
    [][\A s \in Sensors :
          /\ historical_states'[s] # historical_states[s] =>
                 /\ UpdateReturns(s)
                 /\ response'[s].kind = "200"
                 /\ AllItemsOk(response'[s].items)
                 /\ historical_states'[s] = ValidStates(response'[s].items)
          /\ (UpdateReturns(s) /\ response'[s].kind = "cancelled") =>
                 /\ emitted'[s] = emitted[s]
                 /\ store'[s] = store[s]
                 /\ pc'[s] = "idle"]_vars

(* A response whose first item parsed and whose second did not, and nothing
   of it stored. *)
C14_Witness ==
    /\ pc["energy"] = "fetched"
    /\ response["energy"].kind = "200"
    /\ ~ParseLoop(response["energy"].items, <<>>).ok
    /\ ParseLoop(response["energy"].items, <<>>).states # <<>>
    /\ historical_states["energy"] = <<>>

NonNegative(h) == \A i \in DOMAIN h : h[i].state >= 0

(* C15: when every input sample value is non-negative, the sums emitted by
   the cumulative aggregator are non-decreasing along the emitted sequence and
   the first emitted sum is not less than the seed. *)
C15_SumsMonotone ==
    (/\ pc["energy"] = "idle"
     /\ SeedPresent(calc_latest["energy"])
     /\ NonNegative(historical_states["energy"])) =>
        LET e == emitted["energy"]
        IN  /\ \A i \in DOMAIN e : ~IsNone(e[i].sum)
            /\ e # <<>> => RatLeq(SeedValue(calc_latest["energy"]), Get(e[1].sum))
            /\ \A i \in 1..(Len(e) - 1) : RatLeq(Get(e[i].sum), Get(e[i + 1].sum))

C15_Witness ==
    /\ pc["energy"] = "idle"
    /\ calc_latest["energy"] = PriorLatest
    /\ NonNegative(historical_states["energy"])
    /\ Len(emitted["energy"]) = 2
    /\ emitted["energy"][1].sum = Some(RatAdd(PriorSum, RatInt(2)))
    /\ emitted["energy"][2].sum = Some(RatAdd(PriorSum, RatInt(3)))

(* The aggregation step of sensor s. *)
Aggregates(s) == pc[s] = "fetched" /\ pc'[s] = "idle"

(* C16: the mean aggregator is idempotent and stateless: a run on the sample
   sequence of its previous run emits the same records again, whatever ran in
   between, and what it emits is what it emits when no `latest` is passed. *)
C16_MeanAggregatorStateless ==
    [][Aggregates("power") =>
          /\ emitted'["power"] =
                 Power_async_calculate_statistic_data(historical_states["power"],
                                                      None).ret
          /\ Flatten(buckets["power"]) = historical_states["power"] =>
                 emitted'["power"] = emitted["power"]]_vars

(* The power sensor has aggregated the same samples twice, the second time
   with a last persisted record. *)
C16_Witness ==
    /\ pc["power"] = "idle"
    /\ response["power"].kind = "non200"
    /\ ~IsNone(calc_latest["power"])
    /\ Len(emitted["power"]) = 2

(* C17: every emitted record's period_start is a multiple of 3600 and every
   sample counted in it satisfies period_start <= ts < period_start + 3600,
   i.e. period_start = floor(ts / 3600) * 3600, also for a sample exactly on
   an hour boundary. *)
C17_BucketAlignment ==
    \A s \in Sensors :
        (pc[s] = "idle" /\ ~raised[s]) =>
            /\ Len(emitted[s]) = Len(buckets[s])
            /\ \A k \in DOMAIN buckets[s] :
                   LET period_start == emitted[s][k].start
                       collection == buckets[s][k].collection
                   IN  /\ period_start % Granularity = 0
                       /\ \A i \in DOMAIN collection :
                              /\ period_start <= collection[i].timestamp
                              /\ collection[i].timestamp < period_start + Granularity
                              /\ period_start =
                                     (collection[i].timestamp \div Granularity)
                                         * Granularity

(* C17 without the hour boundary: samples strictly inside an hour. *)
C17_AlignedOffBoundary ==
    \A s \in Sensors :
        (pc[s] = "idle" /\ ~raised[s]) =>
            \A k \in DOMAIN buckets[s] :
                \A i \in DOMAIN buckets[s][k].collection :
                    LET ts == buckets[s][k].collection[i].timestamp
                    IN  ts % Granularity # 0 =>
                            emitted[s][k].start = (ts \div Granularity) * Granularity

Swap(h, i) == [h EXCEPT ![i] = h[i + 1], ![i + 1] = h[i]]

StrictlyAscending(e) == \A i \in 1..(Len(e) - 1) : e[i].start < e[i + 1].start

(* C18: the cumulative aggregator is insensitive to the order of its input:
   it sorts by timestamp before bucketing, so exchanging two neighbours of
   the input (hence any permutation of it), with the same seed, gives the
   same record sequence, whose period_starts are strictly ascending. *)
C18_EnergyOrderInsensitive ==
    (pc["energy"] = "idle" /\ SeedPresent(calc_latest["energy"])) =>
        LET h == historical_states["energy"]
        IN  /\ StrictlyAscending(emitted["energy"])
            /\ \A i \in 1..(Len(h) - 1) :
                   Energy_async_calculate_statistic_data(
                       Swap(h, i), calc_latest["energy"]).ret = emitted["energy"]

(* An input in descending order of time over two hours. *)
C18_Witness ==
    /\ pc["energy"] = "idle"
    /\ calc_latest["energy"] = PriorLatest
    /\ Len(historical_states["energy"]) = 3
    /\ historical_states["energy"][1].timestamp = 9000
    /\ historical_states["energy"][2].timestamp = 5400
    /\ historical_states["energy"][3].timestamp = 5400
    /\ Len(emitted["energy"]) = 2

(* C19: the cycle of the power sensor and the cycle of the energy sensor share
   no mutable state: under every interleaving of their steps, a step of one
   sensor leaves the other's samples, records, store and position untouched,
   and what a sensor emits is determined by its own samples and its own last
   record alone (for the energy sensor, the running sum included), as when
   the cycles run one after the other. *)
C19_SensorsIndependent ==
    [][\A s \in Sensors :
          /\ pc'[s] # pc[s] =>
                 \A t \in Sensors \ {s} :
                     /\ historical_states'[t] = historical_states[t]
                     /\ emitted'[t] = emitted[t]
                     /\ buckets'[t] = buckets[t]
                     /\ store'[t] = store[t]
                     /\ calc_latest'[t] = calc_latest[t]
                     /\ response'[t] = response[t]
                     /\ requests'[t] = requests[t]
                     /\ pc'[t] = pc[t]
          /\ UpdateReturns(s) =>
                 historical_states'[s] = StatesAfter(historical_states[s], response'[s])
          /\ Aggregates(s) =>
                 /\ calc_latest'[s] = read_last(store[s])
                 /\ emitted'[s] =
                        async_calculate_statistic_data(
                            s, historical_states[s], read_last(store[s])).ret]_vars

(* Both cycles under way at once: the energy sensor has its samples and has
   not aggregated yet while the power sensor is suspended in its request. *)
C19_Witness ==
    /\ pc["power"] = "fetching"
    /\ pc["energy"] = "fetched"
    /\ historical_states["energy"] # <<>>
    /\ historical_states["power"] = <<>>

(* C20: after any call of async_update_historical the stored sample list is
   either the complete list parsed from this call's response (status 200,
   every item parsed) or exactly the list held before the call: a non-200
   status, an exception or a parse error in any one item leaves it unchanged,
   so the samples of an earlier successful cycle stay stored after a later
   failed one. *)
C20_StoredSamplesFrame ==
    [][\A s \in Sensors :
          UpdateReturns(s) =>
              LET resp == response'[s]
              IN  IF resp.kind = "200" /\ AllItemsOk(resp.items)
                  THEN historical_states'[s] = ValidStates(resp.items)
                  ELSE historical_states'[s] = historical_states[s]]_vars

(* A failed cycle after a successful one: the earlier samples are still
   stored. *)
C20_Witness ==
    /\ cycles = 2
    /\ pc["energy"] = "fetched"
    /\ response["energy"].kind \in {"non200", "exception"}
    /\ pc["power"] = "idle"
    /\ response["power"].kind = "none"
    /\ Len(historical_states["energy"]) = 2

SortedByTimestamp(h) ==
    \A i \in 1..(Len(h) - 1) : h[i].timestamp <= h[i + 1].timestamp

(* C21: for a sample sequence already sorted by timestamp, the power
   aggregator and the energy aggregator emit the same number of records with
   pairwise equal period_start and mean; the energy records differ from the
   power records only by the sum, which the power records lack, and the
   difference between the sums of consecutive energy records is the mean of
   the corresponding power record (for the first record, the difference to
   the seed). *)
C21_EnergyRefinesPower ==
    (/\ pc["power"] = "idle"
     /\ pc["energy"] = "idle"
     /\ historical_states["power"] = historical_states["energy"]
     /\ SortedByTimestamp(historical_states["energy"])
     /\ SeedPresent(calc_latest["energy"])) =>
        LET p == emitted["power"]
            e == emitted["energy"]
        IN  /\ Len(e) = Len(p)
            /\ \A i \in DOMAIN e :
                   /\ e[i].start = p[i].start
                   /\ e[i].mean = p[i].mean
                   /\ e[i].state = p[i].state
                   /\ IsNone(p[i].sum)
                   /\ ~IsNone(e[i].sum)
                   /\ Get(e[i].sum) =
                          RatAdd(IF i = 1 THEN SeedValue(calc_latest["energy"])
                                 ELSE Get(e[i - 1].sum),
                                 p[i].mean)

(* Three sorted samples over two hours, aggregated by both sensors, the
   energy sensor from the seed 10. *)
C21_Witness ==
    /\ pc["power"] = "idle"
    /\ pc["energy"] = "idle"
    /\ calc_latest["energy"] = PriorLatest
    /\ Len(historical_states["energy"]) = 3
    /\ historical_states["power"] = historical_states["energy"]
    /\ SortedByTimestamp(historical_states["energy"])
    /\ historical_states["energy"][1].timestamp = 5400
    /\ historical_states["energy"][3].timestamp = 9000
    /\ Len(emitted["power"]) = 2
    /\ Len(emitted["energy"]) = 2

====







